---- MODULE Spec2Model ----
(***************************************************************************)
(* A model of the vehicle controller of sketchbook: the Car (Car.ts, kept  *)
(* as src/unnamed/part_001), its base class Vehicle                        *)
(* (src/src/ts/vehicles/Vehicle.ts) and the spawn point                    *)
(* (src/src/ts/world/VehicleSpawnPoint.ts).                                 *)
(*                                                                         *)
(* Numbers are fixed point:                                                *)
(*   time              in tenths of a second       (0.2 s  = 2)            *)
(*   speed             in halves of a unit         (1.0    = 2)            *)
(*   steering, angles  in thirtieths of a radian   (0.8    = 24)           *)
(*   angular velocity  in 1/800 rad/s              (2.0    = 1600)         *)
(*   engine and brake force in the code's own units                        *)
(*                                                                         *)
(* The chassis angular velocity is kept as its projections on the body's   *)
(* forward and right axes (angF, angR): the code reads it only through     *)
(* angVel.dot(forward) and angVel.dot(right) and changes it only by adding *)
(* multiples of those two orthonormal axes.  The chassis velocity is kept  *)
(* as its forward component (fwd) and the signed angle between its         *)
(* direction and the forward axis (drift), the two quantities the code     *)
(* derives from it.  `super.position` in Vehicle.update is read as the     *)
(* vehicle's own position property.                                        *)
(***************************************************************************)
EXTENDS Integers, Sequences, FiniteSets, TLC

VARIABLES
  actions,           \* Car.actions: action name -> KeyBinding
  wheels,            \* Vehicle.wheels: the controller's wheel descriptors
  wheelInfos,        \* rayCastVehicle.wheelInfos: steering, engineForce, brake per wheel
  wheelTransforms,   \* position and quaternion of each wheel node (the visual proxies)
  children,          \* the vehicle node's children in the scene graph
  spawns,            \* the spawn points of the scenario and what their loads produced
  numWheelsOnGround, \* rayCastVehicle.numWheelsOnGround
  collision,         \* the chassis body (CANNON.Body)
  position,          \* the vehicle's own position property
  quaternion,        \* the vehicle's own quaternion property
  speed,             \* Car._speed
  airSpinTimer,      \* Car.airSpinTimer
  canTiltForwards,   \* Car.canTiltForwards
  steerTarget,       \* Car.steeringSimulator.target
  gear,              \* Car.gear
  shiftTimer,        \* Car.shiftTimer
  world,             \* what the world holds of this vehicle, and Vehicle.world
  phase,             \* "new" after construction, then "idle" between steps and
                     \* "preStepped" inside a physics step
  sinceShift         \* history: time since the gear last changed (capped)

vars == <<actions, wheels, wheelInfos, wheelTransforms, children, spawns, numWheelsOnGround, collision, position,
          quaternion, speed, airSpinTimer, canTiltForwards, steerTarget, gear, shiftTimer,
          world, phase, sinceShift>>

-----------------------------------------------------------------------------
(* Bounds of the model *)

NumWheels == 2           \* wheel nodes of the loaded model
MaxAirTime == 21         \* the air-time accumulator is followed up to 2.1 s
MaxSinceShift == 3       \* the time since the last shift is followed up to 0.3 s
NumSpawnPoints == 4      \* vehicle spawn points of the scenario

-----------------------------------------------------------------------------
(* Input: the action table *)

\* for..in order of Car.actions
ActionOrder == <<"throttle", "reverse", "left", "right", "handbrake", "horn">>

ActionNames == {ActionOrder[i] : i \in 1..Len(ActionOrder)}

\* new KeyBinding(code) for each action
EventCodes ==
  [throttle |-> {"KeyW"}, reverse |-> {"KeyS"}, left |-> {"KeyA"},
   right |-> {"KeyD"}, handbrake |-> {"Space"}, horn |-> {"KeyH"}]

KeyBinding == [isPressed |-> FALSE, justPressed |-> FALSE, justReleased |-> FALSE]

\* Does reading this.actions[name].<field> succeed?  A name that is no key of
\* the table reads undefined, and the field access throws a TypeError.
HasAction(name) == name \in ActionNames

\* Variant: a loop that stops one wheel short
SetAllButLast(infos, field, val) ==
  [i \in 1..Len(infos) |->
     IF i < Len(infos) THEN [infos[i] EXCEPT ![field] = val] ELSE infos[i]]

SetAll(infos, field, val) ==
  [i \in 1..Len(infos) |-> [infos[i] EXCEPT ![field] = val]]

ApplyEngineForce(infos, force) == SetAll(infos, "engineForce", force)

SetSteeringValue(infos, val) == SetAll(infos, "steering", val)

SetBrake(infos, brakeForce) == SetAll(infos, "brake", brakeForce)

BrakeForce == 1000000

\* Car.onInputChange on action table acts and wheel infos infos: the wheel
\* infos it leaves, and whether it threw.
OnInputChange(acts, infos) ==
  LET i1 == IF acts["throttle"].justReleased \/ acts["reverse"].justReleased
            THEN ApplyEngineForce(infos, 0) ELSE infos
  IN  IF ~HasAction("brake")
      THEN [wheelInfos |-> i1, threw |-> TRUE]
      ELSE LET i2 == IF acts["brake"].justPressed THEN SetBrake(i1, BrakeForce) ELSE i1
               i3 == IF acts["brake"].justReleased THEN SetBrake(i2, 0) ELSE i2
           IN  [wheelInfos |-> i3, threw |-> ~HasAction("view")]

\* Variant: triggerAction without the test of the current value
TriggerAlwaysFires(actionName, value, st) ==
  LET a1 == [st.actions EXCEPT
               ![actionName] = [isPressed |-> value,
                                justPressed |-> value,
                                justReleased |-> ~value]]
      r  == OnInputChange(a1, st.wheelInfos)
  IN  [actions    |-> IF r.threw THEN a1
                      ELSE [a1 EXCEPT ![actionName].justPressed = FALSE,
                                      ![actionName].justReleased = FALSE],
       wheelInfos |-> r.wheelInfos,
       fired      |-> Append(st.fired, [action |-> actionName, actions |-> a1]),
       threw      |-> r.threw]

\* Vehicle.triggerAction(actionName, value) on st = [actions, wheelInfos, fired,
\* threw]; fired lists the invocations of onInputChange: the action that
\* triggered it and the action table it saw.
TriggerResult(actionName, value, st) ==
  IF st.actions[actionName].isPressed = value
  THEN st
  ELSE LET a1 == [st.actions EXCEPT
                    ![actionName] = [isPressed |-> value,
                                     justPressed |-> value,
                                     justReleased |-> ~value]]
           r  == OnInputChange(a1, st.wheelInfos)
       IN  [actions    |-> IF r.threw THEN a1
                           ELSE [a1 EXCEPT ![actionName].justPressed = FALSE,
                                           ![actionName].justReleased = FALSE],
            wheelInfos |-> r.wheelInfos,
            fired      |-> Append(st.fired, [action |-> actionName, actions |-> a1]),
            threw      |-> r.threw]

\* Vehicle.resetControls: triggerAction(action, false) for each action in
\* order; an exception leaves the loop.
RECURSIVE ResetFrom(_, _)
ResetFrom(i, st) ==
  IF i > Len(ActionOrder) THEN st
  ELSE LET r == TriggerResult(ActionOrder[i], FALSE, st)
       IN  IF r.threw THEN r ELSE ResetFrom(i + 1, r)

InputState == [actions |-> actions, wheelInfos |-> wheelInfos,
               fired |-> <<>>, threw |-> FALSE]

ResetControlsResult == ResetFrom(1, InputState)

\* Car.handleKeyboardEvent(event, code, pressed): the action table it leaves
KeyboardResult(code, pressed) ==
  IF code \in DOMAIN actions
  THEN [actions EXCEPT ![code].isPressed = pressed]
  ELSE actions

-----------------------------------------------------------------------------
(* Numbers of the code, in the model's fixed point *)

Clamp(x, lo, hi) == IF x < lo THEN lo ELSE IF x > hi THEN hi ELSE x

Min(a, b) == IF a < b THEN a ELSE b

Max(a, b) == IF a > b THEN a ELSE b

Abs(x) == IF x < 0 THEN -x ELSE x

MaxAirSpinMagnitude == 1600   \* 2.0 rad/s
MaxSteerVal == 24             \* 0.8 rad
SteerLeft == 21               \* 0.7 rad
EngineForce == 1500
HandBrake == 10
RampTime == 20                \* airSpinTimer / 2 reaches 1 after 2 s
TimeToShift == 2              \* 0.2 s
ReverseGear == -1
TopGear == 5

\* Orientations of the chassis, and twice the y component of its up axis
Quaternions == {"upright", "onSide", "inverted"}

UpY(q) == CASE q = "upright" -> 2 [] q = "onSide" -> 0 [] q = "inverted" -> -2

-----------------------------------------------------------------------------
(* Car.update *)

\* Variant: the air time starts over whenever throttle is not pressed
AirSpinResetsOnRelease(timer, canTilt, tiresHaveContact, throttlePressed, timeStep) ==
  IF ~tiresHaveContact
  THEN [airSpinTimer |-> IF throttlePressed THEN timer + timeStep ELSE 0,
        canTiltForwards |-> IF ~throttlePressed THEN TRUE ELSE canTilt]
  ELSE [airSpinTimer |-> 0, canTiltForwards |-> FALSE]

\* The air-spin bookkeeping of update: [airSpinTimer, canTiltForwards]
AirSpinAfterUpdate(timer, canTilt, tiresHaveContact, throttlePressed, timeStep) ==
  IF ~tiresHaveContact
  THEN [airSpinTimer |-> timer + timeStep,
        canTiltForwards |-> IF ~throttlePressed THEN TRUE ELSE canTilt]
  ELSE [airSpinTimer |-> 0, canTiltForwards |-> FALSE]

\* The steering value update commands to every wheel
SteeringCommand(acts) ==
  IF acts["left"].isPressed THEN SteerLeft
  ELSE IF acts["right"].isPressed THEN -SteerLeft
  ELSE 0

\* Variant: an engine part that commands nothing when neither throttle nor
\* reverse is pressed
EngineKeepsForce(acts, tiresHaveContact, infos) ==
  IF acts["throttle"].isPressed
  THEN IF tiresHaveContact THEN ApplyEngineForce(infos, EngineForce) ELSE infos
  ELSE IF acts["reverse"].isPressed
  THEN IF tiresHaveContact THEN ApplyEngineForce(infos, -EngineForce) ELSE infos
  ELSE infos

\* The wheel infos after the engine part of update
EngineAfterUpdate(acts, tiresHaveContact, infos) ==
  IF acts["throttle"].isPressed
  THEN IF tiresHaveContact THEN ApplyEngineForce(infos, EngineForce) ELSE infos
  ELSE IF acts["reverse"].isPressed
  THEN IF tiresHaveContact THEN ApplyEngineForce(infos, -EngineForce) ELSE infos
  ELSE ApplyEngineForce(infos, 0)

\* The wheel infos after the braking part of update
BrakeAfterUpdate(acts, infos) ==
  IF acts["handbrake"].isPressed THEN SetBrake(infos, HandBrake) ELSE SetBrake(infos, 0)

\* Variant: an update that shifts up whenever the speed is above first gear's
\* limit, with no cooldown and no top gear
GearShiftsOnSpeed(g, spd, timeStep) == IF spd > 10 THEN g + 1 ELSE g

\* The gear after update: update neither reads nor writes gear and shiftTimer
GearAfterUpdate(g, spd, timeStep) == g

\* rayCastVehicle.getWheelTransformWorld(i) after updateWheelTransform(i): the
\* place of integrator wheel i (0-based) on a chassis at c.position with
\* orientation c.quaternion
GetWheelTransformWorld(c, i) ==
  [position |-> <<c.position, i>>, quaternion |-> <<c.quaternion, i>>]

\* Variant: a loop that stops one wheel short
UpdatedWheelsButLast == 1..(Len(wheelInfos) - 1)

\* The wheels whose proxies the loop of Vehicle.update writes: i runs over the
\* integrator's wheels (1-based here) and reads this.wheels[i]
UpdatedWheels == 1..Len(wheelInfos)

\* The wheel nodes' transforms after the loop of Vehicle.update
WheelTransformsAfterUpdate(wts) ==
  [node \in DOMAIN wts |->
     IF \E i \in UpdatedWheels : wheels[i].wheelObject = node
     THEN GetWheelTransformWorld(collision,
            (CHOOSE i \in UpdatedWheels : wheels[i].wheelObject = node) - 1)
     ELSE wts[node]]

Update(timeStep) ==
  LET tiresHaveContact == numWheelsOnGround > 0
      air == AirSpinAfterUpdate(airSpinTimer, canTiltForwards, tiresHaveContact,
                                actions["throttle"].isPressed, timeStep)
      g   == GearAfterUpdate(gear, speed, timeStep)
  IN  /\ air.airSpinTimer <= MaxAirTime
      /\ position' = collision.position
      /\ quaternion' = collision.quaternion
      /\ airSpinTimer' = air.airSpinTimer
      /\ canTiltForwards' = air.canTiltForwards
      /\ wheelInfos' = BrakeAfterUpdate(actions,
                         EngineAfterUpdate(actions, tiresHaveContact,
                           SetSteeringValue(wheelInfos, SteeringCommand(actions))))
      /\ gear' = g
      /\ sinceShift' = IF g # gear THEN 0 ELSE Min(sinceShift + timeStep, MaxSinceShift)
      /\ wheelTransforms' = WheelTransformsAfterUpdate(wheelTransforms)
      /\ UNCHANGED <<actions, wheels, children, spawns, numWheelsOnGround, collision, speed,
                     steerTarget, shiftTimer, world, phase>>

-----------------------------------------------------------------------------
(* Car.physicsPreStep *)

\* airSpinInfluence, in fortieths
AirSpinInfluence(timer, spd) == Clamp(timer, 0, RampTime) * Clamp(spd, 0, 2)

\* flipOverInfluence = flipSpeedFactor * upFactor * 3, in fortieths
FlipOverInfluence(spd, q) == 15 * Clamp(2 - spd, 0, 2) * (2 - UpY(q))

\* length of effectiveSpinVectorForward: 0.15 * (airSpinInfluence + flipOverInfluence)
EffectiveSpinForward(timer, spd, q) ==
  3 * (AirSpinInfluence(timer, spd) + FlipOverInfluence(spd, q))

\* Variant: the right-axis increment with the flip-over term added
EffectiveSpinRightWithFlip(timer, spd) ==
  3 * (AirSpinInfluence(timer, spd) + FlipOverInfluence(spd, collision.quaternion))

\* length of effectiveSpinVectorRight: 0.15 * airSpinInfluence
EffectiveSpinRight(timer, spd) == 3 * AirSpinInfluence(timer, spd)

\* Variant: a two-sided clamp that brings excess spin back to the cap
RollBrakesExcess(acts, angF, inc) ==
  IF acts["right"].isPressed /\ ~acts["left"].isPressed
  THEN IF angF < MaxAirSpinMagnitude THEN angF + inc ELSE MaxAirSpinMagnitude
  ELSE IF acts["left"].isPressed /\ ~acts["right"].isPressed
  THEN IF angF > -MaxAirSpinMagnitude THEN angF - inc ELSE -MaxAirSpinMagnitude
  ELSE angF

\* angVel.dot(forward) after the Right / Left branch
RollAfterPreStep(acts, angF, inc) ==
  IF acts["right"].isPressed /\ ~acts["left"].isPressed
  THEN IF angF < MaxAirSpinMagnitude THEN angF + inc ELSE angF
  ELSE IF acts["left"].isPressed /\ ~acts["right"].isPressed
  THEN IF angF > -MaxAirSpinMagnitude THEN angF - inc ELSE angF
  ELSE angF

\* Variant: forward pitch without the canTiltForwards gate
PitchUngated(acts, canTilt, angR, inc) ==
  IF acts["throttle"].isPressed /\ ~acts["reverse"].isPressed
  THEN IF angR < MaxAirSpinMagnitude THEN angR + inc ELSE angR
  ELSE IF acts["reverse"].isPressed /\ ~acts["throttle"].isPressed
  THEN IF angR > -MaxAirSpinMagnitude THEN angR - inc ELSE angR
  ELSE angR

\* angVel.dot(right) after the Forwards / Backwards branch
PitchAfterPreStep(acts, canTilt, angR, inc) ==
  IF canTilt /\ acts["throttle"].isPressed /\ ~acts["reverse"].isPressed
  THEN IF angR < MaxAirSpinMagnitude THEN angR + inc ELSE angR
  ELSE IF acts["reverse"].isPressed /\ ~acts["throttle"].isPressed
  THEN IF angR > -MaxAirSpinMagnitude THEN angR - inc ELSE angR
  ELSE angR

\* maxSteerVal / speedFactor, speedFactor = clamp(speed * 0.3, 1, MAX_VALUE)
SteerLimit(spd) == (MaxSteerVal * 20) \div Max(3 * spd, 20)

\* Variant: the steering target without the final clamp
SteeringTargetUnclamped(acts, spd, driftCorrection) ==
  IF acts["right"].isPressed THEN Min(-SteerLimit(spd), -driftCorrection)
  ELSE IF acts["left"].isPressed THEN Max(SteerLimit(spd), -driftCorrection)
  ELSE 0

\* Variant: the target as the one of the two candidates nearer to zero
SteeringTargetSmaller(acts, spd, driftCorrection) ==
  IF acts["right"].isPressed
  THEN Clamp(Max(-SteerLimit(spd), -driftCorrection), -MaxSteerVal, MaxSteerVal)
  ELSE IF acts["left"].isPressed
  THEN Clamp(Min(SteerLimit(spd), -driftCorrection), -MaxSteerVal, MaxSteerVal)
  ELSE 0

\* steeringSimulator.target after the steering part of physicsPreStep
SteeringTarget(acts, spd, driftCorrection) ==
  IF acts["right"].isPressed
  THEN Clamp(Min(-SteerLimit(spd), -driftCorrection), -MaxSteerVal, MaxSteerVal)
  ELSE IF acts["left"].isPressed
  THEN Clamp(Max(SteerLimit(spd), -driftCorrection), -MaxSteerVal, MaxSteerVal)
  ELSE 0

PhysicsPreStep ==
  LET spd == collision.fwd
      q   == collision.quaternion
  IN  /\ speed' = spd
      /\ collision' =
           [collision EXCEPT
              !.angF = RollAfterPreStep(actions, collision.angF,
                                        EffectiveSpinForward(airSpinTimer, spd, q)),
              !.angR = PitchAfterPreStep(actions, canTiltForwards, collision.angR,
                                         EffectiveSpinRight(airSpinTimer, spd))]
      /\ steerTarget' = SteeringTarget(actions, spd, collision.drift)
      /\ UNCHANGED <<actions, wheels, children, spawns, wheelTransforms, wheelInfos, numWheelsOnGround, position,
                     quaternion, airSpinTimer, canTiltForwards, gear, shiftTimer, world,
                     sinceShift>>

-----------------------------------------------------------------------------
(* Input operations *)

TriggerAction(actionName, value) ==
  LET r == TriggerResult(actionName, value, InputState)
  IN  /\ phase = "idle"
      /\ actions' = r.actions
      /\ wheelInfos' = r.wheelInfos
      /\ UNCHANGED <<wheels, children, spawns, wheelTransforms, numWheelsOnGround, collision, position, quaternion,
                     speed, airSpinTimer, canTiltForwards, steerTarget, gear,
                     shiftTimer, world, sinceShift, phase>>

ResetControls ==
  LET r == ResetControlsResult
  IN  /\ phase = "idle"
      /\ actions' = r.actions
      /\ wheelInfos' = r.wheelInfos
      /\ UNCHANGED <<wheels, children, spawns, wheelTransforms, numWheelsOnGround, collision, position, quaternion,
                     speed, airSpinTimer, canTiltForwards, steerTarget, gear,
                     shiftTimer, world, sinceShift, phase>>

HandleKeyboardEvent(code, pressed) ==
  /\ phase = "idle"
  /\ actions' = KeyboardResult(code, pressed)
  /\ UNCHANGED <<wheels, children, spawns, wheelTransforms, wheelInfos, numWheelsOnGround, collision, position,
                 quaternion, speed, airSpinTimer, canTiltForwards, steerTarget,
                 gear, shiftTimer, world, sinceShift, phase>>

-----------------------------------------------------------------------------
(* Position, world membership, spawning *)

\* Variant: a setPosition that also puts the chassis upright
SetPositionResetsPose(p) ==
  [collision EXCEPT !.position = p, !.previousPosition = p,
                    !.interpolatedPosition = p, !.initPosition = p,
                    !.quaternion = "upright"]

\* The chassis after Vehicle.setPosition(x, y, z), p = <<x, y, z>>
SetPositionResult(p) ==
  [collision EXCEPT !.position = p, !.previousPosition = p,
                    !.interpolatedPosition = p, !.initPosition = p]

SetPosition(p) ==
  /\ phase = "idle"
  /\ collision' = SetPositionResult(p)
  /\ UNCHANGED <<actions, wheels, children, spawns, wheelTransforms, wheelInfos, numWheelsOnGround, position,
                 quaternion, speed, airSpinTimer, canTiltForwards, steerTarget,
                 gear, shiftTimer, world, sinceShift, phase>>

VehicleNode == "vehicle"

WheelObjects == {wheels[i].wheelObject : i \in 1..Len(wheels)}

\* The world after Vehicle.addToWorld(world)
AddToWorldResult(w) ==
  [w EXCEPT !.vehicleWorld = TRUE,
            !.scene = (w.scene \cup {VehicleNode}) \cup WheelObjects,
            !.body = TRUE,
            !.raycastVehicle = TRUE]

\* Variant: a removal that leaves the wheel proxies in the scene
RemoveKeepsWheels(w) ==
  [w EXCEPT !.scene = w.scene \ {VehicleNode},
            !.body = FALSE,
            !.raycastVehicle = FALSE,
            !.updatables = FALSE,
            !.vehicleWorld = FALSE]

\* Variant: a removal that does not unregister the vehicle from the world
RemoveSkipsUnregister(w) ==
  [w EXCEPT !.scene = (w.scene \ {VehicleNode}) \ WheelObjects,
            !.body = FALSE,
            !.raycastVehicle = FALSE,
            !.vehicleWorld = FALSE]

ModelContainer == "modelContainer"

\* The vehicle node's children after the traversal of removeFromWorld, which
\* takes the vehicle node and every node below it out of its parent
ChildrenAfterRemove(nodes) == {}

\* The world after Vehicle.removeFromWorld(world), its traversal completed
RemoveFromWorldResult(w) ==
  [w EXCEPT !.scene = (w.scene \ {VehicleNode}) \ WheelObjects,
            !.body = FALSE,
            !.raycastVehicle = FALSE,
            !.updatables = FALSE,
            !.vehicleWorld = FALSE]

\* World.add(entity): entity.addToWorld(this), then registerUpdatable(entity)
WorldAddResult(w) == [AddToWorldResult(w) EXCEPT !.updatables = TRUE]

WorldAdd ==
  /\ phase = "idle"
  /\ ~world.updatables
  /\ world' = WorldAddResult(world)
  /\ UNCHANGED <<actions, wheels, children, spawns, wheelTransforms, wheelInfos, numWheelsOnGround, collision,
                 position, quaternion, speed, airSpinTimer, canTiltForwards,
                 steerTarget, gear, shiftTimer, sinceShift, phase>>

RemoveFromWorld ==
  /\ phase = "idle"
  /\ world' = RemoveFromWorldResult(world)
  /\ children' = ChildrenAfterRemove(children)
  /\ UNCHANGED <<actions, wheels, spawns, wheelTransforms, wheelInfos, numWheelsOnGround, collision,
                 position, quaternion, speed, airSpinTimer, canTiltForwards,
                 steerTarget, gear, shiftTimer, sinceShift, phase>>

\* Variant: a spawn that makes every vehicle the input receiver and the
\* camera target
SpawnWorldAnyDriver(w, driver) ==
  [WorldAddResult(w) EXCEPT !.inputReceiver = VehicleNode,
                            !.cameraTarget = VehicleNode,
                            !.followMode = TRUE]

\* The world after world.add(vehicle) and the driver test of the load callback
SpawnWorld(w, driver) ==
  IF driver = "player"
  THEN [WorldAddResult(w) EXCEPT !.inputReceiver = VehicleNode,
                                 !.cameraTarget = VehicleNode,
                                 !.followMode = TRUE]
  ELSE WorldAddResult(w)

\* The load callback of VehicleSpawnPoint.spawn, after `new Car(model)`:
\* the spawn object is at p with orientation q.
Spawn(p, q, driver) ==
  /\ phase = "new"
  /\ phase' = "idle"
  /\ collision' = [SetPositionResult(<<p[1], p[2] + 1, p[3]>>) EXCEPT !.quaternion = q]
  /\ world' = SpawnWorld(world, driver)
  /\ UNCHANGED <<actions, wheels, children, spawns, wheelTransforms, wheelInfos, numWheelsOnGround, position,
                 quaternion, speed, airSpinTimer, canTiltForwards, steerTarget,
                 gear, shiftTimer, sinceShift>>

-----------------------------------------------------------------------------
(* The tick: the world's scheduler and the integrator *)

\* World.update calls update(timeStep) on every registered updatable
WorldUpdate(timeStep) ==
  /\ phase = "idle"
  /\ world.updatables
  /\ Update(timeStep)

\* The physics step runs the pre-step hook of a chassis that is in the
\* physics world, once, before it integrates
WorldPreStep ==
  /\ phase = "idle"
  /\ world.body
  /\ phase' = "preStepped"
  /\ PhysicsPreStep

\* The integrator resolves the step: the wheels' ground probes, the chassis
\* velocity (vel = [fwd, drift]), angular velocity (ang = [angF, angR]),
\* orientation and position
Integrate(n, vel, ang, q, p) ==
  /\ phase = "preStepped"
  /\ phase' = "idle"
  /\ numWheelsOnGround' = n
  /\ collision' = [collision EXCEPT !.fwd = vel.fwd, !.drift = vel.drift,
                                    !.angF = ang.angF, !.angR = ang.angR,
                                    !.quaternion = q,
                                    !.previousPosition = collision.position,
                                    !.position = p,
                                    !.interpolatedPosition = p]
  /\ UNCHANGED <<actions, wheels, children, spawns, wheelTransforms, wheelInfos, position, quaternion, speed,
                 airSpinTimer, canTiltForwards, steerTarget, gear, shiftTimer,
                 world, sinceShift>>

-----------------------------------------------------------------------------
(* The state after `new Car(model)` for a model with n wheel nodes *)

Origin == <<0, 0, 0>>

WheelNode(i) == <<"wheel1", "wheel2", "wheel3", "wheel4">>[i]

\* Vehicle's constructor reads the wheel nodes and adds one integrator wheel
\* for each; Car's constructor then reads the wheel nodes again.
\* rayCastWheelInfoIndex -1 stands for undefined.
WheelsAfterConstruction(n) ==
  [i \in 1..n |-> [wheelObject |-> WheelNode(i), rayCastWheelInfoIndex |-> i - 1]]
  \o [i \in 1..n |-> [wheelObject |-> WheelNode(i), rayCastWheelInfoIndex |-> -1]]

\* The place of wheel node k (1-based) in the loaded model, in the terms of
\* GetWheelTransformWorld: on a chassis at the origin, upright
ModelTransform(k) ==
  [position |-> <<Origin, k - 1>>, quaternion |-> <<"upright", k - 1>>]

\* No spawn point
NoSpawns ==
  [driver |-> <<>>, pending |-> {}, vehicles |-> <<>>,
   inputReceiver |-> 0, cameraTarget |-> 0, followMode |-> FALSE]

CarConstructed(n) ==
  /\ actions = [a \in ActionNames |-> KeyBinding]
  /\ children = {ModelContainer}
  /\ wheels = WheelsAfterConstruction(n)
  /\ wheelInfos = [i \in 1..n |-> [steering |-> 0, engineForce |-> 0, brake |-> 0]]
  /\ wheelTransforms =
       [node \in {WheelNode(k) : k \in 1..n} |->
          ModelTransform(CHOOSE k \in 1..n : WheelNode(k) = node)]
  /\ numWheelsOnGround = 0
  /\ collision = [position |-> Origin, previousPosition |-> Origin,
                  interpolatedPosition |-> Origin, initPosition |-> Origin,
                  quaternion |-> "upright", fwd |-> 0, drift |-> 0,
                  angF |-> 0, angR |-> 0]
  /\ position = Origin
  /\ quaternion = "upright"
  /\ speed = 0
  /\ airSpinTimer = 0
  /\ canTiltForwards = FALSE
  /\ steerTarget = 0
  /\ gear = 1
  /\ shiftTimer = 0
  /\ world = [scene |-> {}, body |-> FALSE, raycastVehicle |-> FALSE,
              updatables |-> FALSE, vehicleWorld |-> FALSE,
              inputReceiver |-> "none", cameraTarget |-> "none",
              followMode |-> FALSE]
  /\ phase = "new"
  /\ sinceShift = MaxSinceShift

InitWith(n) == CarConstructed(n) /\ spawns = NoSpawns

Init == InitWith(NumWheels)

-----------------------------------------------------------------------------
(* Driving: keyboard events, ticks of one second, and an integrator that
   resolves the ground contact and the chassis velocity *)

\* Codes the keyboard handler is called with: key codes and action names
DriveCodes == {"KeyW", "throttle", "reverse", "left", "right", "handbrake"}

\* Chassis velocities: [forward component, signed angle to the forward axis]
Velocities ==
  { [fwd |-> 0,  drift |-> 47],    \* at rest
    [fwd |-> 16, drift |-> -12],   \* 8.0, drifting
    [fwd |-> -2, drift |-> 94] }   \* 1.0 backwards

NoSpin == [angF |-> 0, angR |-> 0]

Next ==
  \/ Spawn(Origin, "upright", "player")
  \/ \E code \in DriveCodes, pressed \in BOOLEAN : HandleKeyboardEvent(code, pressed)
  \/ WorldUpdate(10)
  \/ WorldPreStep
  \/ \E n \in {0, NumWheels}, vel \in Velocities :
       Integrate(n, vel, NoSpin, "upright", Origin)

Spec == Init /\ [][Next]_vars

-----------------------------------------------------------------------------
(* Input: every action triggered, reset and keyed, between ticks on the ground *)

InputCodes == {"KeyW", "KeyS", "KeyA", "KeyD", "Space", "KeyH", "KeyX", "throttle"}

AtRest == [fwd |-> 0, drift |-> 47]

NextInput ==
  \/ Spawn(Origin, "upright", "player")
  \/ \E a \in ActionNames, value \in BOOLEAN : TriggerAction(a, value)
  \/ ResetControls
  \/ \E code \in InputCodes, pressed \in BOOLEAN : HandleKeyboardEvent(code, pressed)
  \/ WorldUpdate(10)
  \/ WorldPreStep
  \/ Integrate(NumWheels, AtRest, NoSpin, "upright", Origin)

SpecInput == Init /\ [][NextInput]_vars

-----------------------------------------------------------------------------
(* Air control: the direction actions held and released while the integrator
   takes the car off the ground, turns it over and lands it *)

AirCodes == {"throttle", "reverse", "left", "right"}

AirVelocities == {[fwd |-> 0, drift |-> 47], [fwd |-> 2, drift |-> 0]}

\* Angular velocities the integrator leaves: at rest, and the spins that
\* repeated air-control steps of 0.15 and of 0.45 build up, one step inside
\* the cap, at the cap and one step beyond it
AngularVelocities ==
  { NoSpin,
    [angF |-> 1560, angR |-> 1560], [angF |-> -1560, angR |-> -1560],
    [angF |-> 1440, angR |-> 0],
    [angF |-> 1600, angR |-> -1600],
    [angF |-> 1680, angR |-> 1680], [angF |-> -1680, angR |-> -1680] }

NextAir ==
  \/ Spawn(Origin, "upright", "player")
  \/ \E code \in AirCodes, pressed \in BOOLEAN : HandleKeyboardEvent(code, pressed)
  \/ WorldUpdate(20)
  \/ WorldPreStep
  \/ \E n \in {0, NumWheels}, vel \in AirVelocities, ang \in AngularVelocities,
        q \in {"upright", "inverted"} :
       Integrate(n, vel, ang, q, Origin)

SpecAir == Init /\ [][NextAir]_vars

-----------------------------------------------------------------------------
(* World membership: spawning, moving, adding and removing the vehicle
   between ticks *)

Positions == {<<1, 2, 3>>, <<4, 0, 4>>}

Drivers == {"player", "ai"}

NextWorld ==
  \/ \E p \in Positions, q \in Quaternions, driver \in Drivers : Spawn(p, q, driver)
  \/ \E p \in Positions : SetPosition(p)
  \/ WorldAdd
  \/ RemoveFromWorld
  \/ WorldUpdate(10)
  \/ WorldPreStep
  \/ \E n \in {0, NumWheels}, p \in Positions :
       Integrate(n, AtRest, NoSpin, "upright", p)

SpecWorld == Init /\ [][NextWorld]_vars

-----------------------------------------------------------------------------
(* Gears: throttle and reverse keyed, ticks of a tenth of a second and of a
   second, and an integrator that takes the speed across the gear limits of
   the transmission (reverse -4, 1st 5, 2nd 9, 5th 22) *)

FirstGearLimit == 10   \* 5.0

GearSteps == {1, 10}

GearCodes == {"throttle", "reverse"}

GearVelocities ==
  { [fwd |-> 0,  drift |-> 47], [fwd |-> 12, drift |-> 0], [fwd |-> 20, drift |-> 0],
    [fwd |-> 46, drift |-> 0],  [fwd |-> -10, drift |-> 94] }

NextGear ==
  \/ Spawn(Origin, "upright", "player")
  \/ \E code \in GearCodes, pressed \in BOOLEAN : HandleKeyboardEvent(code, pressed)
  \/ \E timeStep \in GearSteps : WorldUpdate(timeStep)
  \/ WorldPreStep
  \/ \E n \in {0, NumWheels}, vel \in GearVelocities :
       Integrate(n, vel, NoSpin, "upright", Origin)

SpecGear == Init /\ [][NextGear]_vars

-----------------------------------------------------------------------------
(* Coasting: throttle and steering keyed and released while the world keeps
   ticking.  The world calls update on every frame and steps the physics on
   every frame, and a physics step that has run its pre-step hook completes. *)

CoastCodes == {"throttle", "left"}

CoastVelocities == {AtRest, [fwd |-> 16, drift |-> -12]}

\* Where the spawn at the origin puts the chassis
SpawnedAtOrigin == <<0, 1, 0>>

CoastIntegrate ==
  \E n \in {0, NumWheels}, vel \in CoastVelocities :
    Integrate(n, vel, NoSpin, "upright", SpawnedAtOrigin)

NextCoast ==
  \/ Spawn(Origin, "upright", "player")
  \/ \E code \in CoastCodes, pressed \in BOOLEAN : HandleKeyboardEvent(code, pressed)
  \/ WorldUpdate(10)
  \/ WorldPreStep
  \/ CoastIntegrate

SpecCoast ==
  /\ Init
  /\ [][NextCoast]_vars
  /\ SF_vars(WorldUpdate(10))
  /\ SF_vars(WorldPreStep)
  /\ WF_vars(CoastIntegrate)

-----------------------------------------------------------------------------
(* A model without wheel nodes: no descriptor is read and no integrator wheel
   is added, and no wheel can be grounded *)

NoWheelCodes == {"throttle", "left", "handbrake"}

NextNoWheels ==
  \/ \E p \in Positions, driver \in Drivers : Spawn(p, "upright", driver)
  \/ \E code \in NoWheelCodes, pressed \in BOOLEAN : HandleKeyboardEvent(code, pressed)
  \/ WorldAdd
  \/ RemoveFromWorld
  \/ WorldUpdate(10)
  \/ WorldPreStep
  \/ \E vel \in CoastVelocities, p \in Positions :
       Integrate(0, vel, NoSpin, "upright", p)

SpecNoWheels == InitWith(0) /\ [][NextNoWheels]_vars

-----------------------------------------------------------------------------
(* An integrator that can leave the chassis at a non-finite position *)

\* NaN, a value apart from every finite coordinate of the model
NaN == -1000000

NonFinitePosition == <<NaN, NaN, NaN>>

Finite(p) == \A k \in 1..Len(p) : p[k] # NaN

NextNonFinite ==
  \/ Spawn(Origin, "upright", "player")
  \/ \E code \in CoastCodes, pressed \in BOOLEAN : HandleKeyboardEvent(code, pressed)
  \/ WorldUpdate(10)
  \/ WorldPreStep
  \/ \E n \in {0, NumWheels}, vel \in CoastVelocities,
        p \in {SpawnedAtOrigin, NonFinitePosition} :
       Integrate(n, vel, NoSpin, "upright", p)

SpecNonFinite == Init /\ [][NextNonFinite]_vars

-----------------------------------------------------------------------------
(* A scenario with several vehicle spawn points: each spawn starts a model
   load, and the load callbacks run one at a time, in any order.  A spawned
   vehicle is named by its spawn point. *)

SpawnPoints == 1..NumSpawnPoints

\* Variant: a callback that takes the input and the camera only while no
\* vehicle has them
SpawnCallbackFirstPlayer(s, sp) ==
  LET car == [id |-> sp, positionSet |-> TRUE, quaternionSet |-> TRUE,
              inWorld |-> TRUE, poseSetWhenAdded |-> TRUE]
      s1  == [s EXCEPT !.pending = @ \ {sp}, !.vehicles = Append(@, car)]
  IN  IF s.driver[sp] = "player" /\ s.inputReceiver = 0
      THEN [s1 EXCEPT !.inputReceiver = sp, !.cameraTarget = sp, !.followMode = TRUE]
      ELSE s1

\* The load callback of spawn point sp, statement by statement: new Car,
\* setPosition, collision.quaternion.set, world.add, and the driver test
SpawnCallbackResult(s, sp) ==
  LET car0 == [id |-> sp, positionSet |-> FALSE, quaternionSet |-> FALSE,
               inWorld |-> FALSE, poseSetWhenAdded |-> FALSE]
      car1 == [car0 EXCEPT !.positionSet = TRUE]
      car2 == [car1 EXCEPT !.quaternionSet = TRUE]
      car3 == [car2 EXCEPT !.inWorld = TRUE,
                           !.poseSetWhenAdded = car2.positionSet /\ car2.quaternionSet]
      s1   == [s EXCEPT !.pending = @ \ {sp}, !.vehicles = Append(@, car3)]
  IN  IF s.driver[sp] = "player"
      THEN [s1 EXCEPT !.inputReceiver = sp, !.cameraTarget = sp, !.followMode = TRUE]
      ELSE s1

LoadCallback(sp) ==
  /\ sp \in spawns.pending
  /\ spawns' = SpawnCallbackResult(spawns, sp)
  /\ UNCHANGED <<actions, wheels, wheelInfos, wheelTransforms, children,
                 numWheelsOnGround, collision, position, quaternion, speed,
                 airSpinTimer, canTiltForwards, steerTarget, gear, shiftTimer,
                 world, phase, sinceShift>>

\* Every spawn point has its driver and its load outstanding
InitSpawn ==
  /\ CarConstructed(NumWheels)
  /\ \E drv \in [SpawnPoints -> Drivers] :
       spawns = [NoSpawns EXCEPT !.driver = drv, !.pending = SpawnPoints]

NextSpawn == \E sp \in SpawnPoints : LoadCallback(sp)

SpecSpawn == InitSpawn /\ [][NextSpawn]_vars

-----------------------------------------------------------------------------
(* Properties *)

WithinMaxSpin(c) ==
  Abs(c.angF) <= MaxAirSpinMagnitude /\ Abs(c.angR) <= MaxAirSpinMagnitude

\* C1: while no wheel is grounded, a pre-step that starts with the angular
\* velocity along the forward axis and along the right axis within
\* maxSpinMagnitude leaves both within maxSpinMagnitude, whatever is held.
AirSpinWithinMax ==
  [][(phase = "idle" /\ phase' = "preStepped" /\ numWheelsOnGround = 0
        /\ WithinMaxSpin(collision))
     => WithinMaxSpin(collision')]_vars

\* C2: the gear stays within the gear table (reverse .. top gear), and a
\* gear change never comes less than the shift time after the previous one.
GearWithinTableAndCooldown ==
  /\ [](gear \in ReverseGear..TopGear)
  /\ [][gear' # gear => sinceShift >= TimeToShift]_vars

\* C2, its case: on the ground with throttle applied by an update, at a
\* speed above first gear's limit, some time after the start
GearHeldAboveFirstLimit ==
  /\ gear = 1
  /\ speed > FirstGearLimit
  /\ numWheelsOnGround > 0
  /\ Len(wheelInfos) > 0 /\ wheelInfos[1].engineForce = EngineForce

\* C3: the steering value commanded to every wheel and the steering
\* simulator's target stay within [-maxSteer, maxSteer].
SteeringWithinMax ==
  /\ steerTarget \in -MaxSteerVal..MaxSteerVal
  /\ \A i \in 1..Len(wheelInfos) : wheelInfos[i].steering \in -MaxSteerVal..MaxSteerVal

\* C3, its case: right held, the drift correction beyond the maximum, the
\* target clamped to -maxSteer by a pre-step and -0.7 commanded by an update
SteeringClampedRight ==
  /\ actions["right"].isPressed
  /\ collision.drift > MaxSteerVal
  /\ steerTarget = -MaxSteerVal
  /\ Len(wheelInfos) > 0 /\ wheelInfos[1].steering = -SteerLeft

\* C4: the update that observes a grounded wheel leaves the air-time
\* accumulator at 0, and every pre-step (air-control computation) made while
\* a wheel is grounded sees an accumulator of 0.
AirTimeZeroWhenGrounded ==
  [][/\ (phase = "idle" /\ phase' = "idle" /\ numWheelsOnGround > 0
           /\ airSpinTimer' # airSpinTimer)
        => airSpinTimer' = 0
     /\ (phase = "idle" /\ phase' = "preStepped" /\ numWheelsOnGround > 0)
        => airSpinTimer = 0]_vars

VehicleNodes == {VehicleNode} \cup WheelObjects

HookEnabled == ENABLED WorldPreStep \/ ENABLED WorldUpdate(10)

SetPositionReadsBack ==
  [][collision'.initPosition # collision.initPosition
     => /\ collision'.position = collision'.initPosition
        /\ position' = collision'.initPosition]_vars

Pressed(acts) == {a \in ActionNames : acts[a].isPressed}

\* C8: resetControls leaves no action pressed and invokes onInputChange once,
\* with justReleased set, for each action that was pressed, and for no other.
ResetControlsReleasesAll ==
  LET r == ResetControlsResult
  IN  /\ Pressed(r.actions) = {}
      /\ \A a \in ActionNames :
           Cardinality({i \in 1..Len(r.fired) : r.fired[i].action = a})
             = IF actions[a].isPressed THEN 1 ELSE 0
      /\ \A i \in 1..Len(r.fired) : r.fired[i].actions[r.fired[i].action].justReleased

\* C9: between input changes, where update and the pre-step run, no action
\* has justPressed or justReleased set.
EdgeFlagsCleared ==
  \A a \in ActionNames : ~actions[a].justPressed /\ ~actions[a].justReleased

\* C10: a keyboard event whose code is bound to an action leaves that
\* action's isPressed equal to the event's pressed value.
KeyEventSetsAction ==
  \A a \in ActionNames, pressed \in BOOLEAN :
    \A code \in EventCodes[a] : KeyboardResult(code, pressed)[a].isPressed = pressed

EngineAndSteeringZero ==
  /\ steerTarget = 0
  /\ \A i \in 1..Len(wheelInfos) :
       wheelInfos[i].engineForce = 0 /\ wheelInfos[i].steering = 0

\* C11: if from some point on no action is pressed and a wheel is grounded,
\* then from some point on the engine force and the steering commanded to
\* every wheel and the steering target are 0, and stay 0.
CoastConvergesToZero ==
  <>[](Pressed(actions) = {} /\ numWheelsOnGround > 0)
    => <>[]EngineAndSteeringZero

\* C11, its case: nothing pressed, on the ground and moving, after an update
\* and a pre-step, with engine force, steering and steering target at 0
CoastedToZero ==
  /\ phase = "idle"
  /\ Pressed(actions) = {}
  /\ numWheelsOnGround > 0
  /\ speed > 0
  /\ position = SpawnedAtOrigin
  /\ Len(wheelInfos) > 0
  /\ EngineAndSteeringZero

\* C12: an update on the ground in first gear, with throttle held, the speed
\* above first gear's limit and the shift time elapsed, leaves the gear at 2.
ThrottleShiftsToSecond ==
  (/\ phase = "idle" /\ world.updatables
   /\ gear = 1
   /\ actions["throttle"].isPressed
   /\ numWheelsOnGround > 0
   /\ speed > FirstGearLimit
   /\ sinceShift >= TimeToShift)
  => \A timeStep \in GearSteps : GearAfterUpdate(gear, speed, timeStep) = gear + 1

\* C13: airborne with right and throttle held, the increment the pre-step
\* applies along the forward axis after half the ramp time is strictly
\* smaller than after the full ramp time, and either of them leaves a
\* component that was within maxSpinMagnitude within maxSpinMagnitude.
HalfRampIncrementSmaller ==
  (/\ phase = "idle" /\ world.body
   /\ numWheelsOnGround = 0
   /\ actions["right"].isPressed /\ ~actions["left"].isPressed
   /\ actions["throttle"].isPressed)
  => LET half == EffectiveSpinForward(RampTime \div 2, collision.fwd, collision.quaternion)
         full == EffectiveSpinForward(RampTime, collision.fwd, collision.quaternion)
     IN  /\ half < full
         /\ Abs(collision.angF) <= MaxAirSpinMagnitude
              => /\ Abs(RollAfterPreStep(actions, collision.angF, half)) <= MaxAirSpinMagnitude
                 /\ Abs(RollAfterPreStep(actions, collision.angF, full)) <= MaxAirSpinMagnitude

\* C14: a pre-step made while a wheel is grounded leaves the chassis angular
\* velocity as it was.
GroundedPreStepKeepsSpin ==
  [][(phase = "idle" /\ phase' = "preStepped" /\ numWheelsOnGround > 0)
     => /\ collision'.angF = collision.angF
        /\ collision'.angR = collision.angR]_vars

\* C15: an update made while no wheel is grounded leaves the engine force of
\* every wheel at 0.
AirborneUpdateCutsEngine ==
  (phase = "idle" /\ world.updatables /\ numWheelsOnGround = 0)
  => LET infos == EngineAfterUpdate(actions, numWheelsOnGround > 0, wheelInfos)
     IN  \A i \in 1..Len(infos) : infos[i].engineForce = 0

\* C16: an input change (triggerAction, resetControls or the keyboard handler)
\* that leaves throttle and reverse both unpressed leaves the engine force of
\* every wheel at 0.
ReleaseCutsEngine ==
  [][(/\ phase = "idle" /\ phase' = "idle"
      /\ actions' # actions
      /\ ~actions'["throttle"].isPressed /\ ~actions'["reverse"].isPressed)
     => \A i \in 1..Len(wheelInfos') : wheelInfos'[i].engineForce = 0]_vars

\* C17: an update made while a wheel is grounded commands an engine force
\* of at most baseForce in magnitude, positive with only throttle pressed,
\* negative with only reverse pressed, zero with both or neither.
EngineForceHasInputSign ==
  (phase = "idle" /\ world.updatables /\ numWheelsOnGround > 0)
  => LET infos == EngineAfterUpdate(actions, numWheelsOnGround > 0, wheelInfos)
         sign  == (IF actions["throttle"].isPressed THEN 1 ELSE 0)
                  - (IF actions["reverse"].isPressed THEN 1 ELSE 0)
     IN  \A i \in 1..Len(infos) :
           /\ Abs(infos[i].engineForce) <= EngineForce
           /\ sign > 0 => infos[i].engineForce > 0
           /\ sign < 0 => infos[i].engineForce < 0
           /\ sign = 0 => infos[i].engineForce = 0

\* C18: the pre-step hook, which runs before the integrator integrates the
\* step, never changes the chassis angular velocity: the air-control
\* correction is not applied there.
NoAirControlBeforeIntegration ==
  [][(phase = "idle" /\ phase' = "preStepped")
     => /\ collision'.angF = collision.angF
        /\ collision'.angR = collision.angR]_vars

\* C19: the wheel collection has one descriptor for each of the N wheel
\* nodes, the integrator has N wheels, the descriptors carry distinct
\* integrator indices in 0..N-1, and no operation changes any of these.
WheelSetFixed ==
  /\ [](/\ Len(wheels) = NumWheels
        /\ Len(wheelInfos) = NumWheels
        /\ \A i \in 1..Len(wheels) : wheels[i].rayCastWheelInfoIndex \in 0..(NumWheels - 1)
        /\ \A i, j \in 1..Len(wheels) :
             wheels[i].rayCastWheelInfoIndex = wheels[j].rayCastWheelInfoIndex => i = j)
  /\ [][wheels' = wheels /\ Len(wheelInfos') = Len(wheelInfos)]_vars

\* C20: a vehicle built from a model without wheel nodes is never registered
\* with the physics world or as a raycast vehicle, and no engine, steering
\* or brake command takes effect on a wheel.
NoWheelsNeverDrivable ==
  Len(wheels) = 0 =>
    /\ ~world.body
    /\ ~world.raycastVehicle
    /\ \A i \in 1..Len(wheelInfos) :
         wheelInfos[i].engineForce = 0 /\ wheelInfos[i].steering = 0
         /\ wheelInfos[i].brake = 0

\* C21: the vehicle's position and the position of every wheel proxy are
\* finite, also after an update that follows an integration step which left
\* the chassis position non-finite.
TransformsStayFinite ==
  /\ Finite(position)
  /\ \A node \in DOMAIN wheelTransforms : Finite(wheelTransforms[node].position[1])

\* C22: the spawn makes the vehicle the input receiver and the camera's
\* follow target, with followMode true, when the driver is "player", and
\* leaves the three as they were for any other driver.
SpawnSetsReceiverForPlayerOnly ==
  \A driver \in Drivers :
    LET w == SpawnWorld(world, driver)
    IN  IF driver = "player"
        THEN /\ w.inputReceiver = VehicleNode
             /\ w.cameraTarget = VehicleNode
             /\ w.followMode
        ELSE /\ w.inputReceiver = world.inputReceiver
             /\ w.cameraTarget = world.cameraTarget
             /\ w.followMode = world.followMode

\* C22, its case: spawned for the player, in the world, receiving input and
\* followed by the camera
SpawnedForPlayer ==
  /\ phase = "idle"
  /\ world.vehicleWorld /\ world.updatables
  /\ world.inputReceiver = VehicleNode
  /\ world.cameraTarget = VehicleNode
  /\ world.followMode

\* C23: a pre-step adds nothing along an axis whose projection is at or
\* beyond maxSpinMagnitude in the commanded direction and does not reduce it;
\* the projection grows only with right (throttle) held and a projection
\* below the cap, and falls only with left (reverse) held and a projection
\* above the negative cap.
ClampIsOneSided ==
  [][(phase = "idle" /\ phase' = "preStepped") =>
       /\ (/\ actions["right"].isPressed /\ ~actions["left"].isPressed
           /\ collision.angF >= MaxAirSpinMagnitude)
          => collision'.angF = collision.angF
       /\ (/\ actions["left"].isPressed /\ ~actions["right"].isPressed
           /\ collision.angF <= -MaxAirSpinMagnitude)
          => collision'.angF = collision.angF
       /\ (/\ actions["throttle"].isPressed /\ ~actions["reverse"].isPressed
           /\ collision.angR >= MaxAirSpinMagnitude)
          => collision'.angR = collision.angR
       /\ (/\ actions["reverse"].isPressed /\ ~actions["throttle"].isPressed
           /\ collision.angR <= -MaxAirSpinMagnitude)
          => collision'.angR = collision.angR
       /\ collision'.angF > collision.angF
          => actions["right"].isPressed /\ collision.angF < MaxAirSpinMagnitude
       /\ collision'.angF < collision.angF
          => actions["left"].isPressed /\ collision.angF > -MaxAirSpinMagnitude
       /\ collision'.angR > collision.angR
          => actions["throttle"].isPressed /\ collision.angR < MaxAirSpinMagnitude
       /\ collision'.angR < collision.angR
          => actions["reverse"].isPressed /\ collision.angR > -MaxAirSpinMagnitude]_vars

\* C23, its case: after a pre-step in the air with right held, a non-zero
\* increment at hand and the projection on the forward axis at the cap
HeldAtCap ==
  /\ phase = "preStepped"
  /\ numWheelsOnGround = 0
  /\ actions["right"].isPressed /\ ~actions["left"].isPressed
  /\ EffectiveSpinForward(airSpinTimer, speed, collision.quaternion) > 0
  /\ collision.angF = MaxAirSpinMagnitude

\* spinAcceleration x spinInfluence and spinAcceleration x flipInfluence, in
\* 1/800 rad/s, at the start of a pre-step
SpinTerm == 3 * Clamp(airSpinTimer, 0, RampTime) * Clamp(collision.fwd, 0, 2)

FlipTerm == 3 * 15 * Clamp(2 - collision.fwd, 0, 2) * (2 - UpY(collision.quaternion))

RollRight ==
  /\ actions["right"].isPressed /\ ~actions["left"].isPressed
  /\ collision.angF < MaxAirSpinMagnitude

RollLeft ==
  /\ actions["left"].isPressed /\ ~actions["right"].isPressed
  /\ collision.angF > -MaxAirSpinMagnitude

PitchForwards ==
  /\ canTiltForwards
  /\ actions["throttle"].isPressed /\ ~actions["reverse"].isPressed
  /\ collision.angR < MaxAirSpinMagnitude

PitchBackwards ==
  /\ actions["reverse"].isPressed /\ ~actions["throttle"].isPressed
  /\ collision.angR > -MaxAirSpinMagnitude

\* C24, as stated: the roll increment and the pitch increment both have
\* magnitude spinAcceleration x (spinInfluence + flipInfluence).
IncrementsUseSpinAndFlip ==
  [][(phase = "idle" /\ phase' = "preStepped") =>
       /\ RollRight => collision'.angF = collision.angF + (SpinTerm + FlipTerm)
       /\ RollLeft => collision'.angF = collision.angF - (SpinTerm + FlipTerm)
       /\ PitchForwards => collision'.angR = collision.angR + (SpinTerm + FlipTerm)
       /\ PitchBackwards => collision'.angR = collision.angR - (SpinTerm + FlipTerm)]_vars

\* C24, amended: the roll increment has magnitude spinAcceleration x
\* (spinInfluence + flipInfluence), the pitch increment has magnitude
\* spinAcceleration x spinInfluence.
PitchIncrementUsesSpinOnly ==
  [][(phase = "idle" /\ phase' = "preStepped") =>
       /\ RollRight => collision'.angF = collision.angF + (SpinTerm + FlipTerm)
       /\ RollLeft => collision'.angF = collision.angF - (SpinTerm + FlipTerm)
       /\ PitchForwards => collision'.angR = collision.angR + SpinTerm
       /\ PitchBackwards => collision'.angR = collision.angR - SpinTerm]_vars

\* C24, its case: after a pre-step in the air, inverted and without forward
\* speed (flipInfluence 3, spinInfluence 0), with left and reverse held: the
\* roll has its increment of 0.45, the pitch is as the integrator left it
RolledNotPitched ==
  /\ phase = "preStepped"
  /\ numWheelsOnGround = 0
  /\ actions["reverse"].isPressed /\ ~actions["throttle"].isPressed
  /\ actions["left"].isPressed /\ ~actions["right"].isPressed
  /\ collision.quaternion = "inverted"
  /\ speed = 0
  /\ airSpinTimer > 0
  /\ collision.angF = -FlipTerm
  /\ collision.angR = 0

TargetWithinSpeedLimit ==
  [][(/\ phase = "idle" /\ phase' = "preStepped"
      /\ actions["left"].isPressed \/ actions["right"].isPressed)
     => Abs(steerTarget') <= (MaxSteerVal * 20) \div Max(3 * collision.fwd, 20)]_vars

\* C26, amended: the target is the one of the two candidates that lies
\* further in the pressed direction, limited to maxSteer: with right held it
\* is in [-maxSteer, -maxSteer/speedFactor], with left held (and right not)
\* in [maxSteer/speedFactor, maxSteer], and it is the negated drift-correction
\* angle whenever that angle lies in the interval.
TargetBeyondSpeedLimit ==
  [][(phase = "idle" /\ phase' = "preStepped") =>
       LET limit == (MaxSteerVal * 20) \div Max(3 * collision.fwd, 20)
       IN  /\ actions["right"].isPressed =>
                /\ steerTarget' \in (-MaxSteerVal)..(-limit)
                /\ -collision.drift \in (-MaxSteerVal)..(-limit)
                     => steerTarget' = -collision.drift
           /\ (actions["left"].isPressed /\ ~actions["right"].isPressed) =>
                /\ steerTarget' \in limit..MaxSteerVal
                /\ -collision.drift \in limit..MaxSteerVal
                     => steerTarget' = -collision.drift]_vars

\* C26, its case: after a pre-step with left held, the target is the negated
\* drift-correction angle, beyond maxSteer / speedFactor
TargetFollowsDrift ==
  /\ phase = "preStepped"
  /\ actions["left"].isPressed /\ ~actions["right"].isPressed
  /\ steerTarget = -collision.drift
  /\ steerTarget > SteerLimit(speed)

\* C27: the air-time accumulator is never negative; it changes only by
\* growing by the time step of an update made with no wheel grounded, or by
\* going to 0 in an update made with a wheel grounded; and an update made
\* with no wheel grounded always makes it grow.
AirTimeGrowsInAir ==
  /\ [](airSpinTimer >= 0)
  /\ [][airSpinTimer' # airSpinTimer =>
          /\ phase = "idle" /\ phase' = "idle"
          /\ IF numWheelsOnGround = 0
             THEN airSpinTimer' - airSpinTimer \in GearSteps
             ELSE airSpinTimer' = 0]_vars
  /\ [][(/\ phase = "idle" /\ phase' = "idle" /\ actions' = actions
          /\ numWheelsOnGround = 0)
         => airSpinTimer' > airSpinTimer]_vars

\* C27, its case: in the air after three updates, of 1 s, 1 s and 0.1 s
LongInAir ==
  /\ phase = "idle"
  /\ numWheelsOnGround = 0
  /\ airSpinTimer > RampTime

\* C28: an update leaves the vehicle's position and quaternion equal to the
\* chassis body's, and the proxy of the wheel descriptor with integrator
\* index i at the integrator's world transform of wheel i, for every
\* integrator wheel.
UpdateSyncsTransforms ==
  [][(/\ phase = "idle" /\ phase' = "idle" /\ world.updatables
      /\ collision' = collision /\ world' = world /\ actions' = actions)
     => /\ position' = collision'.position
        /\ quaternion' = collision'.quaternion
        /\ \A i \in 0..(Len(wheelInfos') - 1) :
             /\ \E k \in 1..Len(wheels') : wheels'[k].rayCastWheelInfoIndex = i
             /\ \A k \in 1..Len(wheels') :
                  wheels'[k].rayCastWheelInfoIndex = i
                  => wheelTransforms'[wheels'[k].wheelObject]
                       = [position |-> <<collision'.position, i>>,
                          quaternion |-> <<collision'.quaternion, i>>]]_vars

\* C28, its case: after an update of a chassis that is away from the origin
\* and not upright, the last wheel's proxy is where the integrator has it
ProxiesFollowChassis ==
  /\ phase = "idle"
  /\ world.updatables
  /\ position = collision.position /\ position # Origin
  /\ quaternion = collision.quaternion /\ quaternion # "upright"
  /\ Len(wheelInfos) > 0
  /\ wheelTransforms[WheelNode(Len(wheelInfos))].position = <<position, Len(wheelInfos) - 1>>

\* C29: all integrator wheels carry the same engine force, the same steering
\* value and the same brake value.
WheelsCommandedAlike ==
  \A i, j \in 1..Len(wheelInfos) :
    /\ wheelInfos[i].engineForce = wheelInfos[j].engineForce
    /\ wheelInfos[i].steering = wheelInfos[j].steering
    /\ wheelInfos[i].brake = wheelInfos[j].brake

\* C29, its case: engine force, steering and hand brake commanded to more
\* than one wheel
AllWheelsDriven ==
  /\ Len(wheelInfos) > 1
  /\ wheelInfos[Len(wheelInfos)].engineForce = EngineForce
  /\ wheelInfos[Len(wheelInfos)].steering = SteerLeft
  /\ wheelInfos[Len(wheelInfos)].brake = HandBrake

\* C30: triggerAction(name, v) for an action whose isPressed is v already
\* leaves the action table and the wheels as they are and does not invoke
\* onInputChange.
RepeatedTriggerIsNoOp ==
  \A a \in ActionNames :
    LET r == TriggerResult(a, actions[a].isPressed, InputState)
    IN  /\ r.actions = actions
        /\ r.wheelInfos = wheelInfos
        /\ r.fired = <<>>
        /\ ~r.threw

\* C30, its case: throttle pressed through triggerAction (its edge flag still
\* set) and applied by an update, so that a repeated press or a release
\* would be seen
ThrottleDownAndApplied ==
  /\ phase = "idle"
  /\ actions["throttle"].isPressed /\ actions["throttle"].justPressed
  /\ Len(wheelInfos) > 0 /\ wheelInfos[1].engineForce = EngineForce

\* C31: in the action table every onInputChange invoked by triggerAction(a, v)
\* sees, action a has isPressed = v and exactly the edge flag of v set, and
\* every other action has both edge flags false.
OnlyTriggeredActionHasEdge ==
  \A a \in ActionNames, v \in BOOLEAN :
    LET r == TriggerResult(a, v, InputState)
    IN  \A k \in 1..Len(r.fired) :
          LET seen == r.fired[k].actions
          IN  /\ seen[a].isPressed = v
              /\ seen[a].justPressed = v
              /\ seen[a].justReleased = ~v
              /\ \A b \in ActionNames \ {a} :
                   ~seen[b].justPressed /\ ~seen[b].justReleased

\* C32: canTiltForwards is granted only by an update made in the air with
\* throttle not pressed and is revoked by an update made with a wheel
\* grounded; a pre-step pitches forward only with canTiltForwards and
\* throttle, and pitches backward with reverse (and not throttle) whatever
\* canTiltForwards.
ForwardPitchIsGated ==
  [][/\ (canTiltForwards' /\ ~canTiltForwards)
        => /\ phase = "idle" /\ phase' = "idle"
           /\ numWheelsOnGround = 0
           /\ ~actions["throttle"].isPressed
     /\ (/\ phase = "idle" /\ phase' = "idle" /\ actions' = actions
         /\ numWheelsOnGround > 0)
        => ~canTiltForwards'
     /\ (phase = "idle" /\ phase' = "preStepped") =>
          /\ collision'.angR > collision.angR
             => canTiltForwards /\ actions["throttle"].isPressed
          /\ (PitchBackwards /\ SpinTerm > 0) => collision'.angR < collision.angR]_vars

\* C32, its case: after a pre-step with throttle held and the permission
\* granted, the car has pitched forward from rest by the spin increment
PitchedForward ==
  /\ phase = "preStepped"
  /\ canTiltForwards
  /\ actions["throttle"].isPressed /\ ~actions["reverse"].isPressed
  /\ SpinTerm > 0
  /\ collision.angR = SpinTerm

\* C33: with left and right both pressed, the steering value an update
\* commands and the steering target a pre-step sets do not have opposite
\* signs.
SteeringConflictConsistent ==
  (/\ phase = "idle" /\ world.updatables /\ world.body
   /\ actions["left"].isPressed /\ actions["right"].isPressed)
  => SteeringCommand(actions)
       * SteeringTarget(actions, collision.fwd, collision.drift) >= 0

\* C34: setPosition(x, y, z) leaves the chassis position, previousPosition,
\* interpolatedPosition and initPosition at (x, y, z) and everything else as
\* it was.  (Between ticks, only setPosition changes the chassis.)
SetPositionChangesPositionOnly ==
  [][(phase = "idle" /\ phase' = "idle" /\ collision' # collision) =>
       /\ \E p \in Positions :
            /\ collision'.position = p
            /\ collision'.previousPosition = p
            /\ collision'.interpolatedPosition = p
            /\ collision'.initPosition = p
       /\ collision'.quaternion = collision.quaternion
       /\ collision'.fwd = collision.fwd /\ collision'.drift = collision.drift
       /\ collision'.angF = collision.angF /\ collision'.angR = collision.angR
       /\ actions' = actions
       /\ wheelInfos' = wheelInfos
       /\ wheels' = wheels /\ wheelTransforms' = wheelTransforms
       /\ position' = position /\ quaternion' = quaternion
       /\ world' = world /\ children' = children
       /\ numWheelsOnGround' = numWheelsOnGround
       /\ steerTarget' = steerTarget /\ speed' = speed
       /\ airSpinTimer' = airSpinTimer /\ canTiltForwards' = canTiltForwards]_vars

\* C34, its case: a chassis that is not upright, in the world, put at a
\* position by setPosition
PlacedNotUpright ==
  /\ phase = "idle"
  /\ world.vehicleWorld
  /\ collision.quaternion # "upright"
  /\ collision.initPosition \in Positions
  /\ collision.position = collision.initPosition
  /\ collision.previousPosition = collision.initPosition
  /\ collision.interpolatedPosition = collision.initPosition

\* C35: whenever the vehicle is in the world, after addToWorld alone or after
\* removeFromWorld followed by addToWorld, the vehicle node is in the scene
\* with its model subtree, and the chassis body, the raycast vehicle and
\* every wheel proxy are attached.
ReAddRestoresVehicle ==
  world.vehicleWorld =>
    /\ VehicleNodes \subseteq world.scene
    /\ children = {ModelContainer}
    /\ world.body
    /\ world.raycastVehicle

\* C36: a vehicle that is not in the world is neither the world's input
\* receiver nor the camera's target.
RemovedVehicleReceivesNothing ==
  (phase = "idle" /\ ~world.vehicleWorld) =>
    /\ world.inputReceiver # VehicleNode
    /\ world.cameraTarget # VehicleNode

PlayerVehicles ==
  {k \in 1..Len(spawns.vehicles) : spawns.driver[spawns.vehicles[k].id] = "player"}

\* C37: after each load callback, if a player-driven vehicle has been
\* spawned, the input receiver and the camera's target are both the
\* player-driven vehicle spawned last, with followMode true; and every
\* spawned vehicle had its position and orientation set when it was added to
\* the world.
LastPlayerVehicleHasInputAndCamera ==
  /\ PlayerVehicles # {} =>
       LET last == CHOOSE k \in PlayerVehicles : \A j \in PlayerVehicles : j <= k
       IN  /\ spawns.inputReceiver = spawns.vehicles[last].id
           /\ spawns.cameraTarget = spawns.vehicles[last].id
           /\ spawns.followMode
  /\ \A k \in 1..Len(spawns.vehicles) :
       spawns.vehicles[k].inWorld /\ spawns.vehicles[k].poseSetWhenAdded

\* C37, its case: every load has completed, two or more vehicles are
\* player-driven, and the callback that completed last was not a player's
SeveralPlayersSpawned ==
  /\ spawns.pending = {}
  /\ Len(spawns.vehicles) = NumSpawnPoints
  /\ Cardinality(PlayerVehicles) > 1
  /\ Len(spawns.vehicles) \notin PlayerVehicles

====
